---- MODULE Spec2Model ----
(***************************************************************************)
(* A model of the duet environment (src/duet/duet_env.py): the DuetGame    *)
(* object with its configuration (man_init), reset and step, and the       *)
(* frame-skip loop of step with its per-tick pipeline                      *)
(*   move balls -> move obstacles -> retire -> spawn -> collision check.   *)
(*                                                                         *)
(* Ball, Obstacle and ObstacleManager live in duet_backend, which is not   *)
(* part of the sources at hand; they are modelled from the written         *)
(* specification (sections 3 and 4.1-4.3).  Angles are counted in spin     *)
(* steps on a ring of TurnSteps positions (a quarter turn per spin, where  *)
(* the game turns by SPIN_STEP radians), lengths are in pixels.            *)
(***************************************************************************)
EXTENDS Integers, Sequences, FiniteSets, TLC

VARIABLES
    mode,               \* self.mode
    inited,             \* man_init has run (the attributes it creates exist)
    n_repeat_action,    \* self.n_repeat_action
    random_obstacles,   \* self.random_obstacles
    action,             \* self.action
    score,              \* self.score
    i,                  \* self.i
    blue_theta,         \* self.blue_ball: its angle
    red_theta,          \* self.red_ball: its angle
    obstacles,          \* self.obstacle_manager: the live sets, oldest first
    op,                 \* the last call made on the object
    raised,             \* the exception the last call ended with, or NoError
    ret,                \* (reward, game_over) the last step call returned
    trace,              \* what each executed tick of the last step call did
    screen,             \* self.screen: what was last drawn on it
    ticks               \* ticks executed since the last reset (bounds the run)

vars == <<mode, inited, n_repeat_action, random_obstacles, action, score, i,
          blue_theta, red_theta, obstacles, op, raised, ret, trace, screen,
          ticks>>

-----------------------------------------------------------------------------
(* Program constants of duet_env.py *)

BOARD_HEIGHT == 960

BOARD_WIDTH == 540

CIRCLE_RADIUS == 100

DIST_TO_BOTTOM == CIRCLE_RADIUS + 15

NEW_OBS_INTERVAL == 140

\* the side of the pixel observation: resize((84, 84))
PIXEL_SIZE == 84

ValidModes == {"man", "contr", "ai"}

(* Bounds of the model *)

\* the largest frame-skip count man_init is given
MaxRepeat == 4

\* ticks an episode may run before it has to be reset
MaxTicks == 306

Modes == ValidModes \cup {"bad"}

NoneAction == -1

\* the values step is called with in external-action mode: the three of
\* action_space, one outside it, and None
AiActions == {0, 1, 2, 3, NoneAction}

NoError == "none"

NoBall == -1

NoRet == [reward |-> 0, done |-> FALSE]

-----------------------------------------------------------------------------
(* Ball (duet_backend.ball), from the specification *)

\* cos and sin of the ring's positions, times CIRCLE_RADIUS
CosTab == <<100, 0, -100, 0>>

SinTab == <<0, 100, 0, -100>>

TurnSteps == Len(CosTab)

\* pi, in spin steps
HalfTurn == TurnSteps \div 2

spin_left(theta) == (theta - 1) % TurnSteps

spin_right(theta) == (theta + 1) % TurnSteps

CenterX == BOARD_WIDTH \div 2

CenterY == BOARD_HEIGHT - DIST_TO_BOTTOM

position(theta) ==
    [x |-> CenterX + CosTab[theta + 1], y |-> CenterY - SinTab[theta + 1]]

(* Obstacle (duet_backend.obstacle), from the specification *)

OBSTACLE_HEIGHT == 21

OBSTACLE_STEP == 6

get_top(o) == o.top

get_bottom(o) == o.top + OBSTACLE_HEIGHT

x_span(o) == <<o.left, o.left + o.width>>

move(o) == [o EXCEPT !.top = @ + OBSTACLE_STEP]

collided_with(theta, o) ==
    LET p == position(theta)
    IN  /\ x_span(o)[1] <= p.x /\ p.x <= x_span(o)[2]
        /\ get_top(o) <= p.y /\ p.y <= get_bottom(o)

(* ObstacleManager (duet_backend.obstacle_manager), from the specification *)

Obstacle(left, width) == [left |-> left, width |-> width, top |-> 0 - OBSTACLE_HEIGHT]

\* the gates a set is made of: one obstacle on a side or in the middle, or
\* two obstacles with the gap between them
LayoutSet(layout) ==
    CASE layout = "left"   -> <<Obstacle(0, 200)>>
      [] layout = "right"  -> <<Obstacle(340, 200)>>
      [] layout = "center" -> <<Obstacle(220, 100)>>
      [] layout = "sides"  -> <<Obstacle(0, 135), Obstacle(405, 135)>>

\* what new_obstacle_set may draw: any gap when random, else the fixed one
Layouts(random) == IF random THEN {"left", "right", "sides"} ELSE {"center"}

new_obstacle_set(obs, layout) == Append(obs, LayoutSet(layout))

remove_obstacle_set(obs) == IF obs = <<>> THEN obs ELSE Tail(obs)

oldest_out_of_frame(obs) ==
    /\ obs # <<>>
    /\ \A k \in 1..Len(obs[1]) : get_top(obs[1][k]) > BOARD_HEIGHT

oldest_obstacle_set(obs) == obs[1]

-----------------------------------------------------------------------------
(* DuetGame *)

\* the episode state as one value
Game == [score |-> score, i |-> i, blue |-> blue_theta, red |-> red_theta,
         obs |-> obstacles]

\* _init_balls: blue at pi, red at 0
InitBlueTheta == HalfTurn

InitRedTheta == 0

\* a _move_balls whose spin-right branch of the external-action mode turns
\* the red ball the other way
MoveBallsUncoupled(g, md, act, key) ==
    IF md = "man" \/ md = "contr"
    THEN [raised |-> NoError,
          blue |-> IF key = -1 THEN spin_left(g.blue)
                   ELSE IF key = 1 THEN spin_right(g.blue) ELSE g.blue,
          red  |-> IF key = -1 THEN spin_left(g.red)
                   ELSE IF key = 1 THEN spin_right(g.red) ELSE g.red]
    ELSE IF md = "ai"
    THEN [raised |-> NoError,
          blue |-> IF act = 1 THEN spin_left(g.blue)
                   ELSE IF act = 2 THEN spin_right(g.blue) ELSE g.blue,
          red  |-> IF act = 1 THEN spin_left(g.red)
                   ELSE IF act = 2 THEN spin_left(g.red) ELSE g.red]
    ELSE [raised |-> "ValueError", blue |-> g.blue, red |-> g.red]

\* a _move_balls without its final else: an unknown mode moves nothing and
\* raises nothing
MoveBallsNoCheck(g, md, act, key) ==
    IF md = "man" \/ md = "contr"
    THEN [raised |-> NoError,
          blue |-> IF key = -1 THEN spin_left(g.blue)
                   ELSE IF key = 1 THEN spin_right(g.blue) ELSE g.blue,
          red  |-> IF key = -1 THEN spin_left(g.red)
                   ELSE IF key = 1 THEN spin_right(g.red) ELSE g.red]
    ELSE [raised |-> NoError,
          blue |-> IF md = "ai" /\ act = 1 THEN spin_left(g.blue)
                   ELSE IF md = "ai" /\ act = 2 THEN spin_right(g.blue) ELSE g.blue,
          red  |-> IF md = "ai" /\ act = 1 THEN spin_left(g.red)
                   ELSE IF md = "ai" /\ act = 2 THEN spin_right(g.red) ELSE g.red]

\* a _move_balls whose external-action branch has its two spins exchanged
MoveBallsAiSwapped(g, md, act, key) ==
    IF md = "man" \/ md = "contr"
    THEN [raised |-> NoError,
          blue |-> IF key = -1 THEN spin_left(g.blue)
                   ELSE IF key = 1 THEN spin_right(g.blue) ELSE g.blue,
          red  |-> IF key = -1 THEN spin_left(g.red)
                   ELSE IF key = 1 THEN spin_right(g.red) ELSE g.red]
    ELSE IF md = "ai"
    THEN [raised |-> NoError,
          blue |-> IF act = 1 THEN spin_right(g.blue)
                   ELSE IF act = 2 THEN spin_left(g.blue) ELSE g.blue,
          red  |-> IF act = 1 THEN spin_right(g.red)
                   ELSE IF act = 2 THEN spin_left(g.red) ELSE g.red]
    ELSE [raised |-> "ValueError", blue |-> g.blue, red |-> g.red]

\* a _move_balls that raises for an unknown mode only after it has spun the
\* balls
MoveBallsLateCheck(g, md, act, key) ==
    IF md = "man" \/ md = "contr"
    THEN [raised |-> NoError,
          blue |-> IF key = -1 THEN spin_left(g.blue)
                   ELSE IF key = 1 THEN spin_right(g.blue) ELSE g.blue,
          red  |-> IF key = -1 THEN spin_left(g.red)
                   ELSE IF key = 1 THEN spin_right(g.red) ELSE g.red]
    ELSE IF md = "ai"
    THEN [raised |-> NoError,
          blue |-> IF act = 1 THEN spin_left(g.blue)
                   ELSE IF act = 2 THEN spin_right(g.blue) ELSE g.blue,
          red  |-> IF act = 1 THEN spin_left(g.red)
                   ELSE IF act = 2 THEN spin_right(g.red) ELSE g.red]
    ELSE [raised |-> "ValueError", blue |-> spin_left(g.blue),
          red |-> spin_left(g.red)]

\* a _move_balls whose external-action branch spins right on every action
\* that is neither 0 nor 1
MoveBallsAiElseRight(g, md, act, key) ==
    IF md = "man" \/ md = "contr"
    THEN [raised |-> NoError,
          blue |-> IF key = -1 THEN spin_left(g.blue)
                   ELSE IF key = 1 THEN spin_right(g.blue) ELSE g.blue,
          red  |-> IF key = -1 THEN spin_left(g.red)
                   ELSE IF key = 1 THEN spin_right(g.red) ELSE g.red]
    ELSE IF md = "ai"
    THEN [raised |-> NoError,
          blue |-> IF act = 1 THEN spin_left(g.blue)
                   ELSE IF act # 0 THEN spin_right(g.blue) ELSE g.blue,
          red  |-> IF act = 1 THEN spin_left(g.red)
                   ELSE IF act # 0 THEN spin_right(g.red) ELSE g.red]
    ELSE [raised |-> "ValueError", blue |-> g.blue, red |-> g.red]

\* _move_balls: the spin applied to both balls, or the error it raises.
\* key is what the keyboard or the controller answers on this tick
\* (-1 left, 1 right, 0 neither).
MoveBalls(g, md, act, key) ==
    IF md = "man" \/ md = "contr"
    THEN [raised |-> NoError,
          blue |-> IF key = -1 THEN spin_left(g.blue)
                   ELSE IF key = 1 THEN spin_right(g.blue) ELSE g.blue,
          red  |-> IF key = -1 THEN spin_left(g.red)
                   ELSE IF key = 1 THEN spin_right(g.red) ELSE g.red]
    ELSE IF md = "ai"
    THEN [raised |-> NoError,
          blue |-> IF act = 1 THEN spin_left(g.blue)
                   ELSE IF act = 2 THEN spin_right(g.blue) ELSE g.blue,
          red  |-> IF act = 1 THEN spin_left(g.red)
                   ELSE IF act = 2 THEN spin_right(g.red) ELSE g.red]
    ELSE [raised |-> "ValueError", blue |-> g.blue, red |-> g.red]

\* _move_obstacles
MoveObstacles(obs) ==
    [s \in 1..Len(obs) |-> [k \in 1..Len(obs[s]) |-> move(obs[s][k])]]

\* the collision test of one tick: either ball against the oldest set
Collided(blue, red, obs) ==
    \E k \in 1..Len(oldest_obstacle_set(obs)) :
        \/ collided_with(blue, oldest_obstacle_set(obs)[k])
        \/ collided_with(red, oldest_obstacle_set(obs)[k])

\* set_mode: a new, black display surface
BlankScreen ==
    [drawn |-> FALSE, blue |-> NoBall, red |-> NoBall, obs |-> <<>>, score |-> 0]

\* the drawing of one tick: screen.fill(BLACK), _draw_circle, _draw_balls,
\* _draw_obstacles, _draw_score
Draw(blue, red, obs, sc) ==
    [drawn |-> TRUE, blue |-> blue, red |-> red, obs |-> obs, score |-> sc]

\* a score incremented outside the if, on every tick
ScoreEveryTick(retire, sc) == sc + 1

\* if self.obstacle_manager.oldest_out_of_frame(): ... self.score += 1
ScoreOnRetire(retire, sc) == IF retire THEN sc + 1 ELSE sc

\* a reward set afresh on every tick, as if reward = 0 opened the loop body
RewardLastTickOnly(retire, reward) == IF retire THEN 1 ELSE 0

\* a retirement that leaves the reward alone
RewardKept(retire, reward) == reward

\* ... reward = 1
RewardOnRetire(retire, reward) == IF retire THEN 1 ELSE reward

\* a spawn test against the interval itself, which the wrapped counter
\* never equals
TimeToSpawnAtInterval(c) == c = NEW_OBS_INTERVAL

\* if self.i % NEW_OBS_INTERVAL == 0
TimeToSpawn(c) == c % NEW_OBS_INTERVAL = 0

\* a game_over that tells of the last tick only
GameOverOfLastTick(hit, game_over) == hit

\* the two collision branches: game_over = True
GameOverOnCollision(hit, game_over) == hit \/ game_over

\* the two collision branches: reward = 0
RewardOnCollision(hit, reward) == IF hit THEN 0 ELSE reward

\* a counter that is incremented and never wrapped
NextCounterNoWrap(c) == c + 1

\* self.i += 1; self.i = self.i % NEW_OBS_INTERVAL
NextCounter(c) == (c + 1) % NEW_OBS_INTERVAL

\* One pass of the loop body of step, from the state c of the call: c.g the
\* episode, c.reward and c.game_over the locals of step, c.trace what the
\* ticks executed so far did.  An error of _move_balls, or of
\* oldest_obstacle_set on an empty manager, ends the call and leaves what
\* was assigned before it.
Tick(c, md, act, key, layout) ==
    LET g       == c.g
        mb      == MoveBalls(g, md, act, key)
        moved   == MoveObstacles(g.obs)
        retire  == oldest_out_of_frame(moved)
        obs1    == IF retire THEN remove_obstacle_set(moved) ELSE moved
        score1  == ScoreOnRetire(retire, g.score)
        reward1 == RewardOnRetire(retire, c.reward)
        spawn   == TimeToSpawn(g.i)
        obs2    == IF spawn THEN new_obstacle_set(obs1, layout) ELSE obs1
    IN  IF mb.raised # NoError
        THEN [c EXCEPT !.raised = mb.raised,
                       !.g = [g EXCEPT !.blue = mb.blue, !.red = mb.red]]
        ELSE IF obs2 = <<>>
        THEN [c EXCEPT !.raised = "IndexError",
                       !.g = [score |-> score1, i |-> g.i, blue |-> mb.blue,
                              red |-> mb.red, obs |-> obs2],
                       !.reward = reward1,
                       !.screen = Draw(mb.blue, mb.red, obs2, score1)]
        ELSE LET hit == Collided(mb.blue, mb.red, obs2)
             IN  [g |-> [score |-> score1,
                         i |-> NextCounter(g.i),
                         blue |-> mb.blue, red |-> mb.red, obs |-> obs2],
                  reward |-> RewardOnCollision(hit, reward1),
                  game_over |-> GameOverOnCollision(hit, c.game_over),
                  raised |-> NoError,
                  screen |-> Draw(mb.blue, mb.red, obs2, score1),
                  trace |-> Append(c.trace,
                               [retired |-> retire,
                                removed |-> Len(moved) - Len(obs1),
                                added |-> Len(obs2) - Len(obs1),
                                spawned |-> spawn,
                                hit |-> hit,
                                score0 |-> g.score,
                                score |-> score1,
                                nsets |-> Len(obs2),
                                opposite |-> (mb.blue - mb.red) % TurnSteps = HalfTurn])]

\* whether the loop of step goes on after a tick that left the call in state
\* c: it has no break, only an exception ends it early
LoopContinues(c) == c.raised = NoError

\* for i in range(self.n_repeat_action): the ticks k..n of one step call
RECURSIVE RunTicks(_, _, _, _, _, _, _)
RunTicks(c, k, n, md, act, keys, layout) ==
    IF k > n THEN c
    ELSE LET c1 == Tick(c, md, act, keys[k], layout)
         IN  IF LoopContinues(c1)
             THEN RunTicks(c1, k + 1, n, md, act, keys, layout)
             ELSE c1

\* the keyboard's or controller's answers on the n ticks of a call; nothing
\* is read in the other modes
KeySeqs(md, n) ==
    IF md = "man" \/ md = "contr" THEN [1..n -> {-1, 0, 1}] ELSE {[k \in 1..n |-> 0]}

\* whether one of the n ticks that follow counter value c spawns a set
SpawnsWithin(c, n) == \E k \in 0..(n - 1) : (c + k) % NEW_OBS_INTERVAL = 0

\* the gaps the manager may draw during a step call: a draw is made only on
\* a tick that spawns (at most one tick of a call does)
StepLayouts ==
    IF SpawnsWithin(i, n_repeat_action)
    THEN Layouts(random_obstacles) ELSE {"center"}

\* the action step is called with
StepActions(md) == IF md = "ai" THEN AiActions ELSE {NoneAction}

\* a _get_coord_state that lists an obstacle's span as its docstring does:
\* right before left
GetCoordStateRightLeft(g) ==
    LET current == oldest_obstacle_set(g.obs)
        box(o)  == <<get_top(o), get_bottom(o), x_span(o)[2], x_span(o)[1]>>
    IN  <<position(g.blue).x, position(g.blue).y,
          position(g.red).x, position(g.red).y>>
        \o box(current[1])
        \o (IF Len(current) = 1 THEN <<0, 0, 0, 0>> ELSE box(current[2]))

\* _get_coord_state: the coordinate observation of the episode g
GetCoordState(g) ==
    LET current == oldest_obstacle_set(g.obs)
        box(o)  == <<get_top(o), get_bottom(o), x_span(o)[1], x_span(o)[2]>>
    IN  <<position(g.blue).x, position(g.blue).y,
          position(g.red).x, position(g.red).y>>
        \o box(current[1])
        \o (IF Len(current) = 1 THEN <<0, 0, 0, 0>> ELSE box(current[2]))

\* img.resize((84, 84)): a screen coordinate on the small raster
ToPixel(x, extent) == (x * PIXEL_SIZE) \div extent

\* _get_pixel_state: the pixel observation of the screen scr, as the places
\* of what is drawn on the small raster
GetPixelState(scr) ==
    IF ~scr.drawn
    THEN [balls |-> <<>>, rects |-> <<>>, score |-> NoBall]
    ELSE [balls |-> <<[x |-> ToPixel(position(scr.blue).x, BOARD_WIDTH),
                       y |-> ToPixel(position(scr.blue).y, BOARD_HEIGHT)],
                      [x |-> ToPixel(position(scr.red).x, BOARD_WIDTH),
                       y |-> ToPixel(position(scr.red).y, BOARD_HEIGHT)]>>,
          rects |-> [s \in 1..Len(scr.obs) |->
                       [k \in 1..Len(scr.obs[s]) |->
                          [left   |-> ToPixel(x_span(scr.obs[s][k])[1], BOARD_WIDTH),
                           right  |-> ToPixel(x_span(scr.obs[s][k])[2], BOARD_WIDTH),
                           top    |-> ToPixel(get_top(scr.obs[s][k]), BOARD_HEIGHT),
                           bottom |-> ToPixel(get_bottom(scr.obs[s][k]), BOARD_HEIGHT)]]],
          score |-> scr.score]

\* a _get_coord_state that takes the oldest set off the manager to read it
AfterCoordStatePops(g) == [g EXCEPT !.obs = remove_obstacle_set(@)]

\* the episode a call of _get_coord_state leaves: it only reads
AfterCoordState(g) == g

\* the screen a call of _get_pixel_state leaves: the pixel array is read
\* and closed
AfterPixelState(scr) == scr

Init ==
    /\ mode \in Modes
    /\ inited = FALSE
    /\ n_repeat_action = 0
    /\ random_obstacles = FALSE
    /\ action = NoneAction
    /\ score = 0
    /\ i = 1
    /\ blue_theta = NoBall
    /\ red_theta = NoBall
    /\ obstacles = <<>>
    /\ op = "init"
    /\ raised = NoError
    /\ ret = NoRet
    /\ trace = <<>>
    /\ screen = BlankScreen
    /\ ticks = 0

\* man_init(mode, n_repeat_action, random_obstacles)
ManInit(md, n, random, layout) ==
    /\ ~inited
    /\ mode' = md
    /\ inited' = TRUE
    /\ n_repeat_action' = n
    /\ random_obstacles' = random
    /\ action' = IF md = "ai" THEN NoneAction ELSE action
    /\ obstacles' = new_obstacle_set(<<>>, layout)
    /\ blue_theta' = InitBlueTheta
    /\ red_theta' = InitRedTheta
    /\ op' = "man_init"
    /\ raised' = NoError
    /\ UNCHANGED <<score, i, ret, trace, screen, ticks>>

\* a reset that spawns into the old manager instead of a new one
ResetKeepsManager(layout) ==
    [score |-> 0, i |-> 1, blue |-> InitBlueTheta, red |-> InitRedTheta,
     obs |-> new_obstacle_set(obstacles, layout)]

\* the episode state reset builds
ResetGame(layout) ==
    [score |-> 0, i |-> 1, blue |-> InitBlueTheta, red |-> InitRedTheta,
     obs |-> new_obstacle_set(<<>>, layout)]

\* reset()
Reset(layout) ==
    /\ op' = "reset"
    /\ IF inited
       THEN LET g == ResetGame(layout)
            IN  /\ score' = g.score
                /\ i' = g.i
                /\ blue_theta' = g.blue
                /\ red_theta' = g.red
                /\ obstacles' = g.obs
                /\ raised' = NoError
       ELSE /\ score' = 0
            /\ i' = 1
            /\ raised' = "AttributeError"
            /\ UNCHANGED <<blue_theta, red_theta, obstacles>>
    /\ screen' = BlankScreen
    /\ ticks' = 0
    /\ UNCHANGED <<mode, inited, n_repeat_action, random_obstacles, action,
                   ret, trace>>

\* step(action)
Step(act, keys, layout) ==
    /\ op' = "step"
    /\ action' = act
    /\ IF inited
       THEN \E c \in {RunTicks([g |-> Game, reward |-> 0, game_over |-> FALSE,
                                raised |-> NoError, screen |-> screen,
                                trace |-> <<>>],
                               1, n_repeat_action, mode, act, keys, layout)} :
                /\ score' = c.g.score
                /\ i' = c.g.i
                /\ blue_theta' = c.g.blue
                /\ red_theta' = c.g.red
                /\ obstacles' = c.g.obs
                /\ raised' = c.raised
                /\ trace' = c.trace
                /\ screen' = c.screen
                /\ ticks' = ticks + Len(c.trace)
                /\ ret' = IF c.raised = NoError
                          THEN [reward |-> c.reward, done |-> c.game_over]
                          ELSE NoRet
       ELSE /\ raised' = "AttributeError"
            /\ ret' = NoRet
            /\ trace' = <<>>
            /\ UNCHANGED <<score, i, blue_theta, red_theta, obstacles, screen,
                           ticks>>
    /\ UNCHANGED <<mode, inited, n_repeat_action, random_obstacles>>

\* a call of one of the observation encoders, _get_coord_state or
\* _get_pixel_state, as step and reset make it before they return
Observe(encoder) ==
    /\ inited
    /\ obstacles # <<>>
    /\ op' = "observe"
    /\ raised' = NoError
    /\ IF encoder = "coord"
       THEN \E g \in {AfterCoordState(Game)} :
                /\ score' = g.score
                /\ i' = g.i
                /\ blue_theta' = g.blue
                /\ red_theta' = g.red
                /\ obstacles' = g.obs
                /\ screen' = screen
       ELSE /\ screen' = AfterPixelState(screen)
            /\ UNCHANGED <<score, i, blue_theta, red_theta, obstacles>>
    /\ UNCHANGED <<mode, inited, n_repeat_action, random_obstacles, action,
                   ret, trace, ticks>>

Next ==
    \/ \E md \in Modes, n \in 1..MaxRepeat, random \in BOOLEAN :
         \E layout \in Layouts(random) : ManInit(md, n, random, layout)
    \/ \E layout \in Layouts(random_obstacles) : Reset(layout)
    \/ /\ ticks + n_repeat_action <= MaxTicks
       /\ \E act \in StepActions(mode), keys \in KeySeqs(mode, n_repeat_action) :
            \E layout \in StepLayouts : Step(act, keys, layout)
    \/ \E encoder \in {"coord", "pixel"} : Observe(encoder)

Spec == Init /\ [][Next]_vars

-----------------------------------------------------------------------------
(* The claims *)

\* the last call was a step and it returned
Returned == op = "step" /\ raised = NoError

\* the ticks of the last step call
TraceDom == 1..Len(trace)

\* C1: with frame-skip n > 1, a collision on sub-step k < n ends the call:
\* no sub-step runs after a sub-step that detected a collision.
C1_CollisionAbortsRepeats ==
    Returned => \A k \in TraceDom : trace[k].hit => k = Len(trace)

\* C2: whatever the frame-skip count, a step that returns done = true
\* returns reward 0.
C2_DoneImpliesZeroReward ==
    (Returned /\ ret.done) => ret.reward = 0

\* C3, as claimed: with frame-skip n > 1 the returned reward is that of the
\* last sub-step; a retirement on an earlier sub-step and none on the last
\* returns reward 0.
C3_RewardOfLastSubStepOnly ==
    (/\ Returned
     /\ n_repeat_action > 1
     /\ \E k \in TraceDom : k < Len(trace) /\ trace[k].retired
     /\ ~trace[Len(trace)].retired)
    => ret.reward = 0

\* C3, amended: the reward is carried from sub-step to sub-step; step
\* returns 1 exactly when some sub-step retired a set and neither that
\* sub-step nor a later one of the call detected a collision, and 0 otherwise.
C3_RewardCarriedAcrossSubSteps ==
    Returned =>
        /\ ret.reward \in {0, 1}
        /\ ret.reward = 1 <=>
             \E k \in TraceDom :
                /\ trace[k].retired
                /\ \A j \in k..Len(trace) : ~trace[j].hit

\* a call with frame-skip 3 that retires on its second sub-step and
\* returns reward 1
C3_Witness ==
    /\ Returned
    /\ n_repeat_action > 1
    /\ \E k \in TraceDom : k < Len(trace) /\ trace[k].retired
    /\ ~trace[Len(trace)].retired
    /\ ret.reward = 1

\* C4: once a step has returned done = true, the next step call (no reset in
\* between) returns done = true as well.
C4_TerminatedIsAbsorbing ==
    [][(Returned /\ ret.done /\ op' = "step" /\ raised' = NoError) => ret'.done]_vars

\* C5: after a step has returned done = true, a further step call changes
\* neither score, step counter, ball angles nor obstacle sets.
C5_NoChangeAfterDone ==
    [][(Returned /\ ret.done /\ op' = "step")
        => UNCHANGED <<score, i, blue_theta, red_theta, obstacles>>]_vars

\* C6: in every state after configuration, and after every tick of every step
\* call, the two balls' angles differ by exactly pi (modulo 2 pi).
C6_BallsOpposite ==
    inited =>
        /\ (blue_theta - red_theta) % TurnSteps = HalfTurn
        /\ \A k \in TraceDom : trace[k].opposite

\* a step in keyboard mode with frame-skip > 1 that has turned the balls
C6_Witness ==
    /\ Returned
    /\ mode = "man"
    /\ n_repeat_action > 1
    /\ blue_theta # InitBlueTheta

\* C7: the score never decreases between resets; on every tick it grows by
\* exactly 1 if the oldest set is retired on that tick and by 0 otherwise, and
\* a tick removes at most one set, namely when it retires.
C7_ScorePerTick ==
    [][/\ op' # "reset" => score' >= score
       /\ op' = "step" =>
            /\ \A k \in 1..Len(trace') :
                 /\ trace'[k].score0 = IF k = 1 THEN score ELSE trace'[k - 1].score
                 /\ trace'[k].score - trace'[k].score0
                      = IF trace'[k].retired THEN 1 ELSE 0
                 /\ trace'[k].removed = IF trace'[k].retired THEN 1 ELSE 0
            /\ score' = IF trace' = <<>> THEN score ELSE trace'[Len(trace')].score]_vars

\* a step that retired the oldest set and scored
C7_Witness ==
    /\ Returned
    /\ score >= 1
    /\ \E k \in TraceDom : trace[k].retired /\ trace[k].score = trace[k].score0 + 1

\* C8: with frame-skip 1 a step returns reward 1 exactly when its tick
\* retired the oldest set and detected no collision, and reward 0 otherwise.
C8_RewardSingleTick ==
    (Returned /\ n_repeat_action = 1) =>
        /\ Len(trace) = 1
        /\ ret.reward \in {0, 1}
        /\ ret.reward = 1 <=> (trace[1].retired /\ ~trace[1].hit)

\* a step with frame-skip 1 that retired a set and returned reward 1
C8_Witness ==
    /\ Returned
    /\ n_repeat_action = 1
    /\ trace[1].retired
    /\ ret.reward = 1

\* C9: reset leaves score 0, the step counter at 1, the blue ball at pi, the
\* red ball at 0 and a manager holding exactly one freshly spawned set.
C9_ResetState ==
    (op = "reset" /\ raised = NoError) =>
        /\ score = 0
        /\ i = 1
        /\ blue_theta = HalfTurn
        /\ red_theta = 0
        /\ Len(obstacles) = 1
        /\ \E layout \in Layouts(random_obstacles) : obstacles[1] = LayoutSet(layout)

\* a reset made after a step that returned done = true in an episode that
\* had scored and spawned
C9_Witness ==
    /\ op = "reset"
    /\ raised = NoError
    /\ ret.done
    /\ \E k \in TraceDom : trace[k].score >= 1 /\ trace[k].nsets = 1
    /\ score = 0

\* C10, as claimed: a control mode outside the valid set fails at
\* construction: neither the constructor, man_init nor reset ends without an
\* error when the mode is invalid.
C10_InvalidModeRejectedAtConstruction ==
    (op \in {"init", "man_init", "reset"} /\ raised = NoError)
        => mode \in ValidModes

\* C10, amended: an invalid mode is accepted by the constructor, man_init and
\* reset; every step call then raises ValueError on its first tick, so that
\* no tick completes and no step returns while the mode is invalid.
C10_InvalidModeFailsAtFirstStep ==
    mode \notin ValidModes =>
        /\ op \in {"init", "man_init"} => raised = NoError
        /\ (op = "reset" /\ inited) => raised = NoError
        /\ (op = "step" /\ inited) => raised = "ValueError"
        /\ op = "step" => raised # NoError
        /\ trace = <<>>
        /\ ret = NoRet
        /\ ticks = 0

\* a step call on a configured game with an invalid mode, ended by ValueError
C10_Witness ==
    /\ mode \notin ValidModes
    /\ inited
    /\ op = "step"
    /\ raised = "ValueError"

\* the coordinate observation of the current state
CoordState == GetCoordState(Game)

\* the pixel observation of the current state
PixelState == GetPixelState(screen)

SpecBox(o) == <<o.top, o.top + OBSTACLE_HEIGHT, o.left, o.left + o.width>>

TickIndex(k) == ticks - Len(trace) + k

\* C15: a set is appended on exactly the ticks whose index since reset is a
\* multiple of the spawn interval, whatever the frame-skip count, and the
\* step counter stays within 0 .. NEW_OBS_INTERVAL - 1.
C15_SpawnCadence ==
    /\ i \in 0..(NEW_OBS_INTERVAL - 1)
    /\ Returned =>
         \A k \in TraceDom :
            /\ trace[k].added \in {0, 1}
            /\ trace[k].added = 1 <=> TickIndex(k) % NEW_OBS_INTERVAL = 0

\* the second spawn of an episode, on its 280th tick, in a call that also
\* ran ticks that did not spawn
C15_Witness ==
    /\ Returned
    /\ n_repeat_action = 4
    /\ \E k \in TraceDom :
         /\ TickIndex(k) = 2 * NEW_OBS_INTERVAL
         /\ trace[k].added = 1
         /\ k > 1 /\ trace[k - 1].added = 0

\* C16: a step call returns done exactly when on one of its ticks a ball
\* collided with an obstacle of the set that was oldest after that tick's
\* retirement and spawn; the test of the last tick is the test of the
\* oldest set of the state the call leaves.
C16_DoneIffCollision ==
    Returned =>
        /\ ret.done <=> \E k \in TraceDom : trace[k].hit
        /\ trace[Len(trace)].hit <=>
             \E k \in 1..Len(obstacles[1]) :
                \/ collided_with(blue_theta, obstacles[1][k])
                \/ collided_with(red_theta, obstacles[1][k])

\* done returned for a collision of an earlier tick, the last tick having
\* retired the set that was hit
C16_Witness ==
    /\ Returned
    /\ ret.done
    /\ ~trace[Len(trace)].hit
    /\ trace[Len(trace)].retired
    /\ \E k \in TraceDom : trace[k].hit

\* the angular steps one tick of the external action a turns a ball by
AiTurn(a) == IF a = 1 THEN -1 ELSE IF a = 2 THEN 1 ELSE 0

\* C17: in external-action mode a step call with action 1 turns both balls
\* back by one angular step per tick, action 2 forward by one per tick,
\* action 0 not at all: n steps in all with frame-skip n.
C17_AiActionTurnsBalls ==
    [][(mode = "ai" /\ inited /\ op' = "step" /\ action' \in {0, 1, 2}) =>
         /\ raised' = NoError
         /\ blue_theta' = (blue_theta + n_repeat_action * AiTurn(action')) % TurnSteps
         /\ red_theta' = (red_theta + n_repeat_action * AiTurn(action')) % TurnSteps]_vars

\* a call of three ticks of action 1 from the initial angles
C17_Witness ==
    /\ mode = "ai"
    /\ Returned
    /\ n_repeat_action = 3
    /\ action = 1
    /\ ticks = 3
    /\ blue_theta = (InitBlueTheta - 3) % TurnSteps
    /\ red_theta = (InitRedTheta - 3) % TurnSteps

\* C18: with a control mode that is none of man, contr, ai, a step call
\* raises, and score, step counter, ball angles and obstacle sets are after
\* the failed call what they were before it.
C18_InvalidModeStepMutatesNothing ==
    [][(mode \notin ValidModes /\ op' = "step") =>
         /\ raised' # NoError
         /\ inited => raised' = "ValueError"
         /\ UNCHANGED <<score, i, blue_theta, red_theta, obstacles>>]_vars

\* a failed step of an invalid mode that left the episode as man_init built it
C18_Witness ==
    /\ mode \notin ValidModes
    /\ inited
    /\ op = "step"
    /\ raised = "ValueError"
    /\ score = 0
    /\ i = 1
    /\ blue_theta = InitBlueTheta
    /\ red_theta = InitRedTheta
    /\ Len(obstacles) = 1
    /\ obstacles[1][1].top = 0 - OBSTACLE_HEIGHT

\* the call state step starts its loop from
StepStart ==
    [g |-> Game, reward |-> 0, game_over |-> FALSE, raised |-> NoError,
     screen |-> screen, trace |-> <<>>]

\* C19: in external-action mode a step with an action outside {0, 1, 2},
\* null included, raises nothing and does what a step with action 0 does:
\* the angles stay, and obstacles, step counter, score, reward and done are
\* those of the idle call.
C19_UnknownActionIsIdle ==
    [][(mode = "ai" /\ inited /\ op' = "step" /\ action' \notin {0, 1, 2}) =>
         /\ raised' = NoError
         /\ blue_theta' = blue_theta
         /\ red_theta' = red_theta
         /\ \E layout \in StepLayouts :
              \E c \in {RunTicks(StepStart, 1, n_repeat_action, mode, 0,
                                 [k \in 1..n_repeat_action |-> 0], layout)} :
                 /\ c.raised = NoError
                 /\ score' = c.g.score
                 /\ i' = c.g.i
                 /\ obstacles' = c.g.obs
                 /\ ret' = [reward |-> c.reward, done |-> c.game_over]]_vars

\* a returned step with the action 3 or with null that retired a set and
\* left the balls at their initial angles
C19_Witness ==
    /\ mode = "ai"
    /\ Returned
    /\ action \in {3, NoneAction}
    /\ ret.reward = 1
    /\ blue_theta = InitBlueTheta

====
